---- MODULE Spec2Model ----
(***************************************************************************)
(* The auto-deploy bot of deploy/src/index.ts as a state machine.          *)
(*                                                                         *)
(* The bot is one Node.js process.  Code between two awaits runs           *)
(* atomically; every await is a point where the event loop may run a timer *)
(* callback, a signal handler or the continuation of another invocation of *)
(* processNewRun.  One action of the model is one such atomic stretch.     *)
(***************************************************************************)
EXTENDS Integers, Sequences, FiniteSets, Bags, TLC

VARIABLES
    phase,      \* "stopped" | "initial" (main awaits the first processNewRun) | "polling"
    state,      \* the module-level DeployState object
    file,       \* contents of CONFIG.stateFile: NoFile or the JSON value written
    calls,      \* the invocations of processNewRun in flight: a bag of [pc, run]
    invoked,    \* number of invocations of processNewRun so far
    tempZip,    \* ./temp/artifact.zip: NoZip or the archive written there
    tempPlace,  \* ./temp/place.rbxl: NoPlace or the payload extracted there
    clock,      \* what new Date() reads next
    epoch,      \* number of times the process was started
    loaded,     \* history variable: this run of the process loaded the state file
    started,    \* history variable: the run ids this run of the process took as
                \* candidate, in order
    published,  \* history variable: the bag of requests sent to the Roblox API
    appended,   \* history variable: deploymentHistory as loaded, plus every record pushed since
    returned,   \* history variable: how the invocations of this run of the process
                \* returned, in order: [how, runId]
    passedOver  \* history variable, kept under SpecPages only: the ids this run of
                \* the process saw behind the newest run of a page when it took
                \* the newest as candidate

vars == <<phase, state, file, calls, invoked, tempZip, tempPlace, clock,
          epoch, loaded, started, published, appended, returned, passedOver>>

----------------------------------------------------------------------------
(* Bounds of the model *)

MaxId == 2          \* number of workflow runs the feed can show
MaxCalls == 3       \* invocations of processNewRun over a behaviour
MaxEpoch == 2       \* process starts over a behaviour

(* Program constants *)

HistoryLimit == 50  \* "Keep only last 50 deployments in history"

\* null for a number | null or string | null field; a value v is <<v>>.
Null == <<>>
Some(v) == <<v>>
Val(o) == o[1]
Undefined == "undefined"
\* The state file does not exist; a file holding json is <<json>>.
NoFile == <<>>
PublishError == "Failed to publish to Roblox"

\* The ids of the workflow runs the feed can show.  They follow runs
\* 1..HistoryLimit, which an earlier run of the bot may have deployed.
RunIds == (HistoryLimit + 1)..(HistoryLimit + MaxId)

\* A workflow run as the GitHub API returns it (the fields the bot reads).
WorkflowRun(i) == [id |-> i, head_sha |-> <<"sha", i>>]
\* null where a run is expected.
NoRun == [id |-> -1, head_sha |-> <<>>]

\* A page of successful runs, newest first: ids strictly descending.
RunPages ==
    {<<>>} \cup {<<WorkflowRun(i)>> : i \in RunIds}
           \cup UNION {{<<WorkflowRun(i), WorkflowRun(j)>> : j \in {k \in RunIds : k < i}} : i \in RunIds}

\* What listWorkflowRunsForRepo can answer: a page, or a failed request.
QueryError == [ok |-> FALSE, runs |-> <<>>]
QueryResponses == {QueryError} \cup {[ok |-> TRUE, runs |-> p] : p \in RunPages}

\* What the place-file artifact of a run can hold.
ZipKinds == {"good", "noentry", "corrupt", "warn"}
Zip(i, k) == [run |-> i, kind |-> k]
\* ./temp/artifact.zip does not exist.
NoZip == [run |-> -1, kind |-> "absent"]

\* The place.rbxl of run i.
PlaceOf(i) == <<"place", i>>
\* ./temp/place.rbxl does not exist; null where a Buffer is expected.
NoPlace == <<>>

----------------------------------------------------------------------------
(* DeployState, loadState, saveState *)

DefaultState ==
    [lastProcessedRunId |-> Null, lastDeployedAt |-> Null, deploymentHistory |-> <<>>]

\* JavaScript truthiness of a number | null.
Truthy(o) == o # Null /\ Val(o) # 0

\* JSON.stringify drops a property whose value is undefined.
HasError(r) == "error" \in DOMAIN r

\* A replacer that drops every error property, set or not.
StringifyRecord_DropsError(r) ==
    [runId |-> r.runId, deployedAt |-> r.deployedAt,
     commitSha |-> r.commitSha, success |-> r.success]

StringifyRecord(r) ==
    IF HasError(r) /\ r.error = Undefined
    THEN [runId |-> r.runId, deployedAt |-> r.deployedAt,
          commitSha |-> r.commitSha, success |-> r.success]
    ELSE r

Stringify(s) ==
    [lastProcessedRunId |-> s.lastProcessedRunId,
     lastDeployedAt |-> s.lastDeployedAt,
     deploymentHistory |->
        [i \in 1..Len(s.deploymentHistory) |-> StringifyRecord(s.deploymentHistory[i])]]

\* File contents that are not JSON; JSON.parse throws on them.
Garbage == [text |-> "not json"]
Parses(text) == text # Garbage
\* File contents that are JSON but no DeployState: null, and an object
\* without lastDeployedAt and deploymentHistory.
JsonNull == [json |-> "null"]
PartialObject == [lastProcessedRunId |-> Null]

\* JSON.parse of what Stringify wrote, or of other JSON: the value itself.
Parse(json) == json

\* loadState: the state main() works on, given whether reading succeeds.
\* `state = JSON.parse(data)` assigns whatever value the text parses to; a
\* throw of readFileSync or JSON.parse leaves the default state.
loadState(f, readOk) ==
    IF f # NoFile /\ readOk /\ Parses(Val(f)) THEN Parse(Val(f)) ELSE DefaultState

\* saveState: the file after writeFileSync, given whether writing succeeds.
saveState(s, f, writeOk) ==
    IF writeOk THEN Some(Stringify(s)) ELSE f

----------------------------------------------------------------------------
(* The pure parts of the pipeline *)

\* getLatestSuccessfulRun with the null test inverted
\* (!state.lastProcessedRunId || ...): nothing is new until a run was processed.
getLatestSuccessfulRun_NullSkips(s, resp) ==
    IF ~resp.ok THEN NoRun
    ELSE IF Len(resp.runs) = 0 THEN NoRun
    ELSE IF ~Truthy(s.lastProcessedRunId) \/ resp.runs[1].id <= Val(s.lastProcessedRunId)
         THEN NoRun
    ELSE resp.runs[1]

\* getLatestSuccessfulRun also looking the run up in deploymentHistory.
getLatestSuccessfulRun_ChecksHistory(s, resp) ==
    IF ~resp.ok THEN NoRun
    ELSE IF Len(resp.runs) = 0 THEN NoRun
    ELSE IF \/ Truthy(s.lastProcessedRunId) /\ resp.runs[1].id <= Val(s.lastProcessedRunId)
            \/ \E i \in DOMAIN s.deploymentHistory :
                  s.deploymentHistory[i].runId = resp.runs[1].id
         THEN NoRun
    ELSE resp.runs[1]

\* getLatestSuccessfulRun: the run to process, or NoRun.
getLatestSuccessfulRun(s, resp) ==
    IF ~resp.ok THEN NoRun
    ELSE IF Len(resp.runs) = 0 THEN NoRun
    ELSE IF Truthy(s.lastProcessedRunId) /\ resp.runs[1].id <= Val(s.lastProcessedRunId)
         THEN NoRun
    ELSE resp.runs[1]

\* extractPlaceFile after the dynamic import: unzip -o ./temp/artifact.zip -d ./temp,
\* then read ./temp/place.rbxl and rm -rf ./temp.  The archive is whatever is in
\* the file now.  unzip exiting non-zero makes execSync throw: the catch returns
\* null and nothing is removed.
extractPlaceFile(zip, place) ==
    IF zip = NoZip \/ zip.kind = "corrupt"
    THEN [result |-> NoPlace, zip |-> zip, place |-> place]
    ELSE IF zip.kind = "warn"
    THEN [result |-> NoPlace, zip |-> zip, place |-> PlaceOf(zip.run)]
    ELSE LET extracted == IF zip.kind = "good" THEN PlaceOf(zip.run) ELSE place
         IN  IF extracted = NoPlace
             THEN [result |-> NoPlace, zip |-> zip, place |-> NoPlace]
             ELSE [result |-> extracted, zip |-> NoZip, place |-> NoPlace]

\* The record processNewRun pushes.
DeploymentRecord(run, at, success) ==
    [runId |-> run.id, deployedAt |-> at, commitSha |-> run.head_sha,
     success |-> success, error |-> IF success THEN Undefined ELSE PublishError]

\* slice(0, 50) in place of slice(-50): keeps the oldest records.
KeepLast_First(h) ==
    IF Len(h) > HistoryLimit THEN SubSeq(h, 1, HistoryLimit) ELSE h

\* deploymentHistory.slice(-50) when longer than 50.
KeepLast(h) ==
    IF Len(h) > HistoryLimit THEN SubSeq(h, Len(h) - HistoryLimit + 1, Len(h)) ELSE h

\* The state update after the publish step.
Deployed(s, run, at, success) ==
    [lastProcessedRunId |-> Some(run.id),
     lastDeployedAt |-> Some(at),
     deploymentHistory |-> KeepLast(Append(s.deploymentHistory, DeploymentRecord(run, at, success)))]

\* The "Skipping run" branches pushing a failed record as well.
Skipped_Recorded(s, run) ==
    [s EXCEPT !.lastProcessedRunId = Some(run.id),
              !.deploymentHistory = Append(@, DeploymentRecord(run, 0, FALSE))]

\* The "Skipping run" branches without `state.lastProcessedRunId = run.id`.
Skipped_NoAdvance(s, run) == s

\* The state update of the two "Skipping run" branches.
Skipped(s, run) == [s EXCEPT !.lastProcessedRunId = Some(run.id)]

----------------------------------------------------------------------------
(* The process *)

One(x) == SetToBag({x})

\* The state file is absent and the bot has never run.
Init ==
    /\ phase = "stopped"
    /\ state = DefaultState
    /\ file = NoFile
    /\ calls = EmptyBag
    /\ invoked = 0
    /\ tempZip = NoZip
    /\ tempPlace = NoPlace
    /\ clock = 0
    /\ epoch = 0
    /\ loaded = FALSE
    /\ started = <<>>
    /\ published = EmptyBag
    /\ appended = <<>>
    /\ returned = <<>>
    /\ passedOver = {}

\* processNewRun is called and runs to its first await (the runs query is sent).
Invoke(inFlight, maxCalls) ==
    /\ invoked < maxCalls
    /\ calls' = inFlight (+) One([pc |-> "query", run |-> NoRun])
    /\ invoked' = invoked + 1

\* An invocation goes from one await to the next.
Goto(c, pc, run) ==
    /\ calls' = (calls (-) One(c)) (+) One([pc |-> pc, run |-> run])
    /\ UNCHANGED <<phase, returned>>

\* processNewRun returns.  main() awaits the first invocation and only then
\* calls setInterval.
Return(c, how) ==
    /\ calls' = calls (-) One(c)
    /\ phase' = IF phase = "initial" THEN "polling" ELSE phase
    /\ returned' = Append(returned, [how |-> how, runId |-> c.run.id])

\* The process starts: module state is the default, main() runs loadState and
\* the initial processNewRun up to its first await.  reads: whether reading
\* the state file can succeed, fail, or both.
Main(reads, maxCalls, maxEpoch) ==
    /\ phase = "stopped"
    /\ epoch < maxEpoch
    /\ \E readOk \in reads :
          /\ state' = loadState(file, readOk)
          /\ appended' = loadState(file, readOk).deploymentHistory
          /\ loaded' = (file # NoFile /\ readOk)
    /\ Invoke(EmptyBag, maxCalls)
    /\ phase' = "initial"
    /\ epoch' = epoch + 1
    /\ started' = <<>>
    /\ returned' = <<>>
    /\ passedOver' = {}
    /\ UNCHANGED <<file, tempZip, tempPlace, clock, published>>

\* The setInterval callback fires, whether or not earlier invocations returned.
TimerTick(maxCalls) ==
    /\ phase = "polling"
    /\ Invoke(calls, maxCalls)
    /\ UNCHANGED <<phase, state, file, tempZip, tempPlace, clock, epoch, loaded,
                   started, published, appended, returned, passedOver>>

\* SIGINT / SIGTERM: saveState(), process.exit(0).  Invocations in flight end
\* where they are.  state keeps its last value until the next start replaces it.
Signal(writes) ==
    /\ phase # "stopped"
    /\ \E writeOk \in writes : file' = saveState(state, file, writeOk)
    /\ phase' = "stopped"
    /\ calls' = EmptyBag
    /\ UNCHANGED <<state, invoked, tempZip, tempPlace, clock, epoch, loaded,
                   started, published, appended, returned, passedOver>>

\* The "Skipping run" branches without their saveState().
Skip_NoSave(c, how, writes) ==
    /\ state' = Skipped(state, c.run)
    /\ file' = file
    /\ Return(c, how)
    /\ UNCHANGED <<clock, appended>>

\* The two "Skipping run" branches: advance, save, return.
Skip(c, how, writes) ==
    /\ state' = Skipped(state, c.run)
    /\ \E writeOk \in writes :
          file' = saveState(Skipped(state, c.run), file, writeOk)
    /\ Return(c, how)
    /\ UNCHANGED <<clock, appended>>

\* The runs query settles with resp: getLatestSuccessfulRun returns; with a
\* run, downloadArtifact sends the artifact list request.  (passedOver is
\* left to QueryDone and QueryObserved.)
QueryAnswered(c, resp) ==
    /\ c.pc = "query"
    /\ LET run == getLatestSuccessfulRun(state, resp) IN
          IF run = NoRun
          THEN /\ Return(c, IF resp.ok THEN "noNewRun" ELSE "queryError")
               /\ UNCHANGED started
          ELSE /\ Goto(c, "download", run)
               /\ started' = Append(started, run.id)
    /\ UNCHANGED <<state, file, invoked, tempZip, tempPlace, clock, epoch, loaded,
                   published, appended>>

QueryDone(c) ==
    /\ \E resp \in QueryResponses : QueryAnswered(c, resp)
    /\ UNCHANGED passedOver

\* The runs of a page behind its first.
Older(resp) == {resp.runs[i].id : i \in 2..Len(resp.runs)}

\* QueryDone, remembering the runs a candidate left behind on its page.
QueryObserved(c) ==
    \E resp \in QueryResponses :
        /\ QueryAnswered(c, resp)
        /\ passedOver' = IF getLatestSuccessfulRun(state, resp) = NoRun
                         THEN passedOver
                         ELSE passedOver \cup Older(resp)

\* What the two requests of downloadArtifact can come to: a failed list
\* request, a list without a place-file artifact, a failed download, or the
\* archive of the run.
ArtifactAnswers(i) ==
    {[got |-> g, zip |-> NoZip] : g \in {"listError", "noArtifact", "downloadError"}}
        \cup {[got |-> "archive", zip |-> Zip(i, k)] : k \in ZipKinds}

\* downloadArtifact: the archive, or NoZip for null.
downloadArtifact(answer) ==
    IF answer.got = "archive" THEN answer.zip ELSE NoZip

\* What the publish request can come to: an ok response whose body parses,
\* an ok response whose body does not (response.json() throws), a response
\* that is not ok, or a fetch that throws.
PublishAnswers == {"ok", "okBadBody", "notOk", "throws"}

\* publishToRoblox: true only on the path through `return true`.
publishToRoblox(answer) == answer = "ok"

\* downloadArtifact settles (its list and download requests; nothing is read
\* or written between the two).  null skips the run; otherwise
\* extractPlaceFile writes the archive to ./temp/artifact.zip and awaits the
\* import of child_process.
DownloadDone(c, writes) ==
    /\ c.pc = "download"
    /\ \E answer \in ArtifactAnswers(c.run.id) :
          IF downloadArtifact(answer) = NoZip
          THEN /\ Skip(c, "noArtifact", writes)
               /\ UNCHANGED tempZip
          ELSE /\ tempZip' = downloadArtifact(answer)
               /\ Goto(c, "import", c.run)
               /\ UNCHANGED <<state, file, clock, appended>>
    /\ UNCHANGED <<invoked, tempPlace, epoch, loaded, started, published, passedOver>>

\* The import resolves: extractPlaceFile finishes; without a place file the
\* run is skipped, with one publishToRoblox sends it.
ImportDone(c, writes) ==
    /\ c.pc = "import"
    /\ LET x == extractPlaceFile(tempZip, tempPlace) IN
          /\ tempZip' = x.zip
          /\ tempPlace' = x.place
          /\ IF x.result = NoPlace
             THEN /\ Skip(c, "extractionFailed", writes)
                  /\ UNCHANGED published
             ELSE /\ Goto(c, "publish", c.run)
                  /\ published' = published (+)
                        One([runId |-> c.run.id, payload |-> x.result,
                             epoch |-> epoch, loaded |-> loaded])
                  /\ UNCHANGED <<state, file, clock, appended>>
    /\ UNCHANGED <<invoked, epoch, loaded, started, passedOver>>

\* publishToRoblox settles with answer (fetch and the read of the response
\* body; nothing is read or written between the two): update state, push the
\* record, truncate, save, return.
PublishAnswered(c, answer, writes) ==
    /\ c.pc = "publish"
    /\ LET s == Deployed(state, c.run, clock, publishToRoblox(answer)) IN
          /\ state' = s
          /\ \E writeOk \in writes : file' = saveState(s, file, writeOk)
    /\ appended' = Append(appended,
          DeploymentRecord(c.run, clock, publishToRoblox(answer)))
    /\ clock' = clock + 1
    /\ Return(c, "published")
    /\ UNCHANGED <<invoked, tempZip, tempPlace, epoch, loaded, started, published, passedOver>>

PublishDone(c, writes) == \E answer \in PublishAnswers : PublishAnswered(c, answer, writes)

\* Reading and writing the state file can fail.
Faulty == BOOLEAN

Next ==
    \/ Main(Faulty, MaxCalls, MaxEpoch)
    \/ TimerTick(MaxCalls)
    \/ Signal(Faulty)
    \/ \E c \in BagToSet(calls) :
          \/ QueryDone(c)
          \/ DownloadDone(c, Faulty)
          \/ ImportDone(c, Faulty)
          \/ PublishDone(c, Faulty)

Spec == Init /\ [][Next]_vars

\* One run of the process in which no signal arrives and every write of the
\* state file succeeds, with one more invocation: a part of the behaviours of
\* Spec at the next bound.
Sound == {TRUE}
SteadyCalls == MaxCalls + 1

NextSteady ==
    \/ Main(Sound, SteadyCalls, 1)
    \/ TimerTick(SteadyCalls)
    \/ \E c \in BagToSet(calls) :
          \/ QueryDone(c)
          \/ DownloadDone(c, Sound)
          \/ ImportDone(c, Sound)
          \/ PublishDone(c, Sound)

SpecSteady == Init /\ [][NextSteady]_vars

\* The bot starts on the state file an earlier run left after deploying runs
\* 1..n one after the other, n at or just under the history limit.
EarlierState(n) ==
    [lastProcessedRunId |-> Some(n),
     lastDeployedAt |-> Some(n - 1),
     deploymentHistory |-> [i \in 1..n |-> DeploymentRecord(WorkflowRun(i), i - 1, TRUE)]]

InitFull ==
    /\ phase = "stopped"
    /\ state = DefaultState
    /\ \E n \in {HistoryLimit - 1, HistoryLimit} :
          /\ file = saveState(EarlierState(n), NoFile, TRUE)
          /\ clock = n
    /\ calls = EmptyBag
    /\ invoked = 0
    /\ tempZip = NoZip
    /\ tempPlace = NoPlace
    /\ epoch = 0
    /\ loaded = FALSE
    /\ started = <<>>
    /\ published = EmptyBag
    /\ appended = <<>>
    /\ returned = <<>>
    /\ passedOver = {}

SpecFull == InitFull /\ [][Next]_vars

\* Spec with passedOver kept.
NextPages ==
    \/ Main(Faulty, MaxCalls, MaxEpoch)
    \/ TimerTick(MaxCalls)
    \/ Signal(Faulty)
    \/ \E c \in BagToSet(calls) :
          \/ QueryObserved(c)
          \/ DownloadDone(c, Faulty)
          \/ ImportDone(c, Faulty)
          \/ PublishDone(c, Faulty)

SpecPages == Init /\ [][NextPages]_vars

\* The bot on a feed whose run ids count from zero.
LowIds == 0..(MaxId - 1)

LowPages ==
    {<<>>} \cup {<<WorkflowRun(i)>> : i \in LowIds}
           \cup UNION {{<<WorkflowRun(i), WorkflowRun(j)>> : j \in {k \in LowIds : k < i}} : i \in LowIds}

LowResponses == {QueryError} \cup {[ok |-> TRUE, runs |-> p] : p \in LowPages}

QueryDoneLow(c) ==
    /\ \E resp \in LowResponses : QueryAnswered(c, resp)
    /\ UNCHANGED passedOver

NextLow ==
    \/ Main(Faulty, MaxCalls, MaxEpoch)
    \/ TimerTick(MaxCalls)
    \/ Signal(Faulty)
    \/ \E c \in BagToSet(calls) :
          \/ QueryDoneLow(c)
          \/ DownloadDone(c, Faulty)
          \/ ImportDone(c, Faulty)
          \/ PublishDone(c, Faulty)

SpecLow == Init /\ [][NextLow]_vars

\* The DeployState values of the interface, small: a record as pushed (error
\* undefined or the error text) or as parsed from the file (error absent or
\* the error text).
Times == 0..(MaxEpoch - 1)

ValidRecords ==
    UNION {{DeploymentRecord(WorkflowRun(i), t, TRUE),
            DeploymentRecord(WorkflowRun(i), t, FALSE),
            StringifyRecord(DeploymentRecord(WorkflowRun(i), t, TRUE))} :
           i \in RunIds, t \in Times}

ValidHistories == UNION {[1..n -> ValidRecords] : n \in 0..MaxId}

ValidStates ==
    [lastProcessedRunId : {Null} \cup {Some(i) : i \in RunIds},
     lastDeployedAt : {Null} \cup {Some(t) : t \in Times},
     deploymentHistory : ValidHistories]

\* saveState and loadState applied to any of them.
InitValid ==
    /\ phase = "stopped"
    /\ state \in ValidStates
    /\ file = NoFile
    /\ calls = EmptyBag
    /\ invoked = 0
    /\ tempZip = NoZip
    /\ tempPlace = NoPlace
    /\ clock = 0
    /\ epoch = 0
    /\ loaded = FALSE
    /\ started = <<>>
    /\ published = EmptyBag
    /\ appended = <<>>
    /\ returned = <<>>
    /\ passedOver = {}

SaveState ==
    /\ file' = saveState(state, file, TRUE)
    /\ UNCHANGED <<phase, state, calls, invoked, tempZip, tempPlace, clock, epoch,
                   loaded, started, published, appended, returned, passedOver>>

LoadState ==
    /\ file # NoFile
    /\ state' = loadState(file, TRUE)
    /\ loaded' = TRUE
    /\ UNCHANGED <<phase, file, calls, invoked, tempZip, tempPlace, clock, epoch,
                   started, published, appended, returned, passedOver>>

NextValid == SaveState \/ LoadState

SpecValid == InitValid /\ [][NextValid]_vars

\* One run of the process on a feed whose newest successful run stays the
\* same, with no signal.  Queries can fail, but not for ever: the query
\* answered after the last timer tick of the behaviour succeeds.
Newest == HistoryLimit + MaxId

LiveResponses ==
    {QueryError} \cup {[ok |-> TRUE, runs |-> p] :
                          p \in {q \in RunPages : Len(q) > 0 /\ q[1].id = Newest}}

QueryLive(c) ==
    /\ \E resp \in LiveResponses :
          /\ resp.ok \/ invoked < MaxCalls
          /\ QueryAnswered(c, resp)
    /\ UNCHANGED passedOver

StepLive ==
    \E c \in BagToSet(calls) :
        \/ QueryLive(c)
        \/ DownloadDone(c, Faulty)
        \/ ImportDone(c, Faulty)
        \/ PublishDone(c, Faulty)

NextLive ==
    \/ Main(Faulty, MaxCalls, 1)
    \/ TimerTick(MaxCalls)
    \/ StepLive

\* The process is started, the timer keeps firing, every await settles.
SpecLive ==
    /\ Init
    /\ [][NextLive]_vars
    /\ WF_vars(Main(Faulty, MaxCalls, 1))
    /\ WF_vars(TimerTick(MaxCalls))
    /\ WF_vars(StepLive)

\* loadState on every condition of the state file: missing, not JSON, JSON
\* that is no DeployState, a saved state; reading can fail.
FileConditions ==
    {NoFile} \cup {Some(Garbage), Some(JsonNull), Some(PartialObject)}
             \cup {saveState(s, NoFile, TRUE) : s \in ValidStates}

InitFiles ==
    /\ phase = "stopped"
    /\ state = DefaultState
    /\ file \in FileConditions
    /\ calls = EmptyBag
    /\ invoked = 0
    /\ tempZip = NoZip
    /\ tempPlace = NoPlace
    /\ clock = 0
    /\ epoch = 0
    /\ loaded = FALSE
    /\ started = <<>>
    /\ published = EmptyBag
    /\ appended = <<>>
    /\ returned = <<>>
    /\ passedOver = {}

LoadAny ==
    /\ ~loaded
    /\ \E readOk \in Faulty : state' = loadState(file, readOk)
    /\ loaded' = TRUE
    /\ UNCHANGED <<phase, file, calls, invoked, tempZip, tempPlace, clock, epoch,
                   started, published, appended, returned, passedOver>>

SpecFiles == InitFiles /\ [][LoadAny]_vars

----------------------------------------------------------------------------
(* Shorthands for the properties *)

lastProcessedRunId == state.lastProcessedRunId
deploymentHistory == state.deploymentHistory
InFlight == BagCardinality(calls)
Running == phase # "stopped"
Count(seq, x) == Cardinality({i \in DOMAIN seq : seq[i] = x})

\* A step inside one run of the process.
InProcess == Running /\ phase' # "stopped"
\* A start of the process that loaded the state file.
Reloaded == ~Running /\ phase' # "stopped" /\ loaded'
\* How often this run of the process sent a publish request while processing b.
PublishesOf(b) == {p \in BagToSet(published) : p.runId = b /\ p.epoch = epoch}
Publishes(b) == BagCardinality([p \in PublishesOf(b) |-> published[p]])

\* C1: lastProcessedRunId, once set, never decreases: every step of the
\* running process, and every restart that reloads the state from the state
\* file, leaves it set and at least as large as it was.
C1_NeverDecreases ==
    [][(lastProcessedRunId # Null /\ (InProcess \/ Reloaded)) =>
         /\ lastProcessedRunId' # Null
         /\ Val(lastProcessedRunId') >= Val(lastProcessedRunId)]_vars

\* C2: no build is processed twice: in one run of the process the pipeline
\* is started at most once for a run id, never for an id <= the current
\* lastProcessedRunId, and at most one publish request is sent per run id.
C2_ProcessedOnce ==
    [][InProcess =>
        \A b \in RunIds :
         /\ Count(started', b) <= 1
         /\ Publishes(b)' <= 1
         /\ (Count(started', b) > Count(started, b) /\ lastProcessedRunId # Null)
                => b > Val(lastProcessedRunId)]_vars

\* C3: restarts do not cause duplicate publishing: a run whose payload was
\* sent to the publish target in one run of the process is not sent again in
\* a later run of the process that loaded the state file.
C3_NoRepublishAfterRestart ==
    \A p, q \in BagToSet(published) :
        (p.runId = q.runId /\ p.epoch < q.epoch) => ~q.loaded

\* C4: invocations of processNewRun never overlap: at most one is in flight.
C4_NoOverlap == InFlight <= 1

\* An invocation returns in this step; how it returned.
ReturnsNow == InProcess /\ Len(returned') = Len(returned) + 1
LastReturned == returned[Len(returned)]
Processing == {"noArtifact", "extractionFailed", "published"}

\* The example of C5: in the first run of the process, the initial check's
\* query failed and the first timer tick took a run as candidate and returned.
C5_Example ==
    /\ epoch = 1
    /\ invoked = 2
    /\ Len(returned) = 2
    /\ returned[1].how = "queryError"
    /\ returned[2].how \in Processing

\* What C5 says of a failed query and of a later successful one.
C5_Steps ==
    \A c \in BagToSet(calls) :
        /\ QueryAnswered(c, QueryError) =>
              /\ calls' = calls (-) One(c)
              /\ UNCHANGED <<state, file, started, published, tempZip, tempPlace>>
        /\ \A resp \in QueryResponses :
              (/\ QueryAnswered(c, resp)
               /\ resp.ok
               /\ Len(resp.runs) > 0
               /\ (lastProcessedRunId = Null \/ resp.runs[1].id > Val(lastProcessedRunId)))
              => /\ started' = Append(started, resp.runs[1].id)
                 /\ calls' = (calls (-) One(c)) (+) One([pc |-> "download", run |-> resp.runs[1]])

C6_TerminalOnce ==
    [][InProcess =>
        /\ (ReturnsNow /\ LastReturned'.how \in Processing) =>
              /\ lastProcessedRunId' = Some(LastReturned'.runId)
              /\ file' = Some(Stringify(state'))
        /\ \A b \in RunIds :
              Count(started', b) > Count(started, b) =>
                  \A i \in DOMAIN returned : returned[i].runId # b]_vars

StrictlyIncreasing(seq) == \A i, j \in DOMAIN seq : i < j => seq[i] < seq[j]
Highest(seq) == CHOOSE x \in {seq[i] : i \in DOMAIN seq} : \A i \in DOMAIN seq : seq[i] <= x

C8_HighestCandidate ==
    (/\ epoch = 1
     /\ InFlight = 0
     /\ Len(returned) = invoked
     /\ Len(started) > 0
     /\ StrictlyIncreasing(started)
     /\ \A i \in DOMAIN returned : returned[i].how # "noNewRun")
    => lastProcessedRunId = Some(Highest(started))

\* C9: no two records of deploymentHistory have the same run id.
C9_OneRecordPerRun ==
    \A i, j \in DOMAIN deploymentHistory :
        i # j => deploymentHistory[i].runId # deploymentHistory[j].runId

\* C10: deploymentHistory never has more than 50 records, and it is the last
\* min(k, 50) of the k records it was loaded with and was appended since, in
\* their order.
LastOf(seq, n) == IF Len(seq) > n THEN SubSeq(seq, Len(seq) - n + 1, Len(seq)) ELSE seq

C10_BoundedHistory ==
    /\ Len(deploymentHistory) <= HistoryLimit
    /\ deploymentHistory = LastOf(appended, HistoryLimit)

C10_Witness ==
    /\ Len(appended) = HistoryLimit + 2
    /\ Len(deploymentHistory) = HistoryLimit
    /\ deploymentHistory[1].runId = 3

\* C11: only the newest run of a page is a candidate: a query answered with
\* several runs whose newest is not yet processed starts the pipeline for the
\* newest only, and a run that was behind the candidate on its page is not
\* taken as candidate by any later step of this run of the process.
C11_NewestOnly ==
    [][InProcess =>
        /\ \A c \in BagToSet(calls), resp \in QueryResponses :
              (/\ QueryAnswered(c, resp)
               /\ resp.ok
               /\ Len(resp.runs) > 1
               /\ (lastProcessedRunId = Null \/ resp.runs[1].id > Val(lastProcessedRunId)))
              => started' = Append(started, resp.runs[1].id)
        /\ \A b \in passedOver : Count(started', b) = Count(started, b)]_vars

\* C12: processNewRun is idempotent: with lastProcessedRunId set (to any id
\* of the feed, zero included) and a query answer that is empty or whose
\* newest id is <= lastProcessedRunId, the invocation returns with no new
\* run, sends no artifact or publish request, and leaves state and state
\* file unchanged.
C12_Idempotent ==
    [][\A c \in BagToSet(calls), resp \in LowResponses :
          (/\ QueryAnswered(c, resp)
           /\ resp.ok
           /\ lastProcessedRunId # Null
           /\ (Len(resp.runs) = 0 \/ resp.runs[1].id <= Val(lastProcessedRunId)))
          => /\ calls' = calls (-) One(c)
             /\ returned' = Append(returned, [how |-> "noNewRun", runId |-> NoRun.id])
             /\ UNCHANGED <<state, file, started, published, tempZip, tempPlace>>]_vars

\* Two states are equal as DeployState values: an error that is undefined
\* and an error that is absent are the same "no error".
ErrorOf(r) == IF HasError(r) THEN r.error ELSE Undefined

SameRecord(r, q) ==
    /\ r.runId = q.runId
    /\ r.deployedAt = q.deployedAt
    /\ r.commitSha = q.commitSha
    /\ r.success = q.success
    /\ ErrorOf(r) = ErrorOf(q)

SameState(s, t) ==
    /\ s.lastProcessedRunId = t.lastProcessedRunId
    /\ s.lastDeployedAt = t.lastDeployedAt
    /\ Len(s.deploymentHistory) = Len(t.deploymentHistory)
    /\ \A i \in DOMAIN s.deploymentHistory :
          SameRecord(s.deploymentHistory[i], t.deploymentHistory[i])

C14_ShutdownCompletes ==
    [][(Running /\ phase' = "stopped") =>
         /\ \A c \in BagToSet(calls) : c.pc \notin {"download", "import", "publish"}
         /\ invoked' = invoked
         /\ state' = state
         /\ file' \in {saveState(state, file, w) : w \in Faulty}]_vars

\* The shape of a DeployState: its three properties, the history a list.
IsDeployState(s) ==
    /\ DOMAIN s = {"lastProcessedRunId", "lastDeployedAt", "deploymentHistory"}
    /\ DOMAIN s.deploymentHistory = 1..Len(s.deploymentHistory)

\* C15: loadState always leaves a usable state: whatever the state file is
\* (missing, unreadable, not JSON, JSON that is no DeployState), the state
\* after loadState has the shape of a DeployState, and it is the default
\* state when the file is missing or does not parse.
C15_LoadUsable ==
    loaded =>
        /\ IsDeployState(state)
        /\ (file = NoFile \/ ~Parses(Val(file))) => state = DefaultState

\* A step of an invocation in which every write of the state file succeeds,
\* and one in which every write fails.
Failing == {FALSE}
StepOf(c, writes) ==
    DownloadDone(c, writes) \/ ImportDone(c, writes) \/ PublishDone(c, writes)

\* C16: state is flushed after every change: a step of processNewRun that
\* changes state returns in the same step and saves on the way; when the
\* write succeeds the file holds the whole new state; when it fails the file
\* is as before, the new state stays in memory and the process goes on
\* polling; and whatever a step or a signal writes is the whole state.
C16_FlushedAfterMutation ==
    [][/\ (InProcess /\ state' # state) => ReturnsNow
       /\ \A c \in BagToSet(calls) :
            /\ (InProcess /\ state' # state /\ calls' = calls (-) One(c) /\ StepOf(c, Sound))
                  => file' = Some(Stringify(state'))
            /\ (InProcess /\ state' # state /\ calls' = calls (-) One(c) /\ StepOf(c, Failing))
                  => /\ file' = file
                     /\ phase' = "polling"
                     /\ LastReturned'.how \in Processing
                     /\ lastProcessedRunId' = Some(c.run.id)
       /\ (file' # file) => file' = Some(Stringify(state'))]_vars

C16_Witness ==
    /\ epoch = 1
    /\ phase = "polling"
    /\ file = NoFile
    /\ Len(returned) = 2
    /\ returned[2].how = "published"
    /\ lastProcessedRunId = Some(returned[2].runId)
    /\ Len(deploymentHistory) = 1
    /\ InFlight = 1

\* The states with the lastProcessedRunId of s and an empty history.  Two
\* states that both decide as these do decide alike.
Variants(s) ==
    {[lastProcessedRunId |-> s.lastProcessedRunId,
      lastDeployedAt |-> d,
      deploymentHistory |-> <<>>] :
        d \in {Null} \cup {Some(t) : t \in Times}}

\* C17: the decision depends on lastProcessedRunId only: for the same query
\* answer, getLatestSuccessfulRun gives the same result (no run, or the same
\* candidate) in any two states with the same lastProcessedRunId, whatever
\* their deploymentHistory and lastDeployedAt: every valid state decides as
\* the state with its lastProcessedRunId and nothing deployed.
C17_DecisionByLastProcessed ==
    \A t \in Variants(state), resp \in QueryResponses :
        getLatestSuccessfulRun(t, resp) = getLatestSuccessfulRun(state, resp)

C17_Witness ==
    \E i \in RunIds :
        /\ lastProcessedRunId = Null
        /\ Len(deploymentHistory) = 1
        /\ deploymentHistory[1].runId = i
        /\ getLatestSuccessfulRun(state, [ok |-> TRUE, runs |-> <<WorkflowRun(i)>>]) = WorkflowRun(i)
        /\ getLatestSuccessfulRun([state EXCEPT !.deploymentHistory = <<>>],
                                  [ok |-> TRUE, runs |-> <<WorkflowRun(i)>>]) = WorkflowRun(i)

\* C18: the payload published for a run comes from that run's own artifact:
\* every request sent to the publish target while processing run c carries
\* the place.rbxl of the archive downloaded for c.
C18_OwnPayload ==
    \A p \in BagToSet(published) : p.payload = PlaceOf(p.runId)

\* C19: a new run is eventually processed: when the newest successful run
\* stays n, the timer keeps firing, queries succeed in the end and every
\* await settles, lastProcessedRunId is eventually set and >= n.
C19_EventuallyProcessed ==
    <>(lastProcessedRunId # Null /\ Val(lastProcessedRunId) >= Newest)

C19_Witness ==
    /\ Len(returned) = 2
    /\ returned[1].how = "queryError"
    /\ returned[2].how \in Processing
    /\ returned[2].runId = Newest
    /\ lastProcessedRunId = Some(Newest)

\* C20: timestamps and history stay consistent: lastDeployedAt is unset
\* exactly when deploymentHistory is empty and is otherwise the deployedAt of
\* its newest record, and every record's runId is <= lastProcessedRunId.
C20_Consistent ==
    /\ (state.lastDeployedAt = Null) <=> (Len(deploymentHistory) = 0)
    /\ Len(deploymentHistory) > 0 =>
          state.lastDeployedAt = Some(deploymentHistory[Len(deploymentHistory)].deployedAt)
    /\ \A i \in DOMAIN deploymentHistory :
          /\ lastProcessedRunId # Null
          /\ deploymentHistory[i].runId <= Val(lastProcessedRunId)

====
